---- MODULE Spec2Model ----
(***************************************************************************)
(* The dual-representation object engine of processor-cad: AICADEngine     *)
(* (src/src/services/AICADEngine.ts) and NaturalLanguageCADService         *)
(* (src/unnamed/part_003).  Every object is a THREE mesh in a scene and a  *)
(* cannon-es body in a physics world; a frame callback steps the world,    *)
(* copies body poses to meshes, runs the per-object animations and         *)
(* renders; pointer handlers drag objects.                                 *)
(*                                                                         *)
(* Quantities are scaled integers.  Time: 1/120 s.  Position: 5 cm.        *)
(* Dimensions: 1 cm.  Gravity: 0.01 m/s^2.  Restitution, friction: 1/10.   *)
(* The rigid-body integrator is cannon-es's; the model keeps its structure *)
(* (semi-implicit Euler per internal step, forces cleared after each       *)
(* internal step, DYNAMIC-only impulses and forces, KINEMATIC bodies moved *)
(* by their velocity only) on a coarse integer grid, vertical axis only.   *)
(***************************************************************************)
EXTENDS Integers, Sequences, FiniteSets, TLC

(* ------------------------------ bounds -------------------------------- *)
\* meshes/bodies ever constructed in one run
MaxHandles == 2
\* CANNON.Material instances ever constructed in one run (Material.idCounter)
MaxMaterials == 3
\* largest vertical speed, height and applied force the model follows a body to
MaxSpeed == 12
MaxHeight == 12
MaxForce == 20
\* largest rotation (1/100 rad) the model follows a mesh to
MaxAngle == 6

(* ------------------------- program constants -------------------------- *)
\* fixedTimeStep = 1/60 s
FixedTimeStep == 2
MaxSubSteps == 3
\* ground plane at y = -0.5
GroundY == -10
\* world.gravity.y = -9.82 set by both constructors
InitialGravityY == -982
\* fallback of the 'gravity' command: params.force.y || -9.8
DefaultGravityY == -980
\* maxRange = 10 of onMouseMove
MaxRange == 200
\* keep-bouncing thresholds: position.y < -0.35, |velocity.y| < 0.5
BounceY == -7
BounceSpeed == 1
\* default impulse / initial_velocity.y || 5
DefaultImpulseY == 5
\* float animation: params.force.y || 10
DefaultFloatY == 10
\* rotation animation: params.speed || 0.02 (1/100 rad)
DefaultSpeed == 2
\* oscillate animation: params.amplitude || 0.5 (position units)
DefaultAmplitude == 10
\* params.mass || 1, in grams
DefaultMass == 1000
\* density_kg_m3 = 1200
DefaultDensity == 1200
\* diameter_m = 0.12, in cm
DefaultDiameter == 12

(* --------------------------- JS primitives ---------------------------- *)
\* An optional value is the empty set (undefined) or a singleton.
None == {}
Some(v) == {v}
Val(o) == CHOOSE v \in o : TRUE

\* JavaScript  x || d  on an optional number: undefined and 0 are falsy.
OrElse(o, d) == IF o = None \/ o = Some(0) THEN d ELSE Val(o)

\* JavaScript  x || d  on an optional object (any object is truthy).
OrElseObj(o, d) == IF o = None THEN d ELSE Val(o)

Abs(n) == IF n < 0 THEN -n ELSE n
Min(a, b) == IF a < b THEN a ELSE b
Max(a, b) == IF a > b THEN a ELSE b

Range(f) == {f[k] : k \in DOMAIN f}

\* f with key k removed / set
Without(f, ks) == [k \in DOMAIN f \ ks |-> f[k]]
With(f, k, v) == [j \in DOMAIN f \cup {k} |-> IF j = k THEN v ELSE f[j]]

Empty == [k \in {} |-> 0]

(* ----------------------------- materials ------------------------------ *)
\* A CANNON.Material: its numeric id (Material.idCounter++), its name, and
\* the handle of the body it was constructed for (0: none).
NullMaterial == [id |-> 0, name |-> "null", owner |-> 0]
GroundMaterial == [id |-> 1, name |-> "ground", owner |-> 0]

NewMaterial(counter, name, owner) == [id |-> counter, name |-> name, owner |-> owner]

\* new CANNON.ContactMaterial(m1, m2, {restitution, friction})
ContactMaterial(m1, m2, r, f) ==
    [m1 |-> m1, m2 |-> m2, restitution |-> r, friction |-> f]

VARIABLES
    sys,              \* which class this run constructs: "engine" | "service"
    scene,            \* handles of the meshes that are children of the THREE scene
    worldBodies,      \* handles of the non-ground bodies in world.bodies
    objects,          \* AICADEngine.objects: id -> CADObject3D
    meshes,           \* NaturalLanguageCADService.meshes: id -> mesh handle
    bodies,           \* NaturalLanguageCADService.bodies: id -> body handle
    mesh,             \* state of each mesh: handle -> [position]
    body,             \* state of each body: handle -> [type, position, velocity, ...]
    contactMaterials, \* the engine's own property world.contactMaterials
    contactmaterials, \* cannon-es World.contactmaterials (what addContactMaterial fills)
    idCounter,        \* Material.idCounter
    nextId,           \* next fresh handle
    accumulator,      \* cannon-es World.accumulator
    gravity,          \* world.gravity.y
    animationId,      \* 0 (null) or 1 (a frame callback is armed)
    isDragging,       \* AICADEngine.isDragging
    dragObject,       \* AICADEngine.dragObject: 0 (null) or an object id
    last              \* what the most recent operation did and returned

vars == <<sys, scene, worldBodies, objects, meshes, bodies, mesh, body,
          contactMaterials, contactmaterials, idCounter, nextId, accumulator,
          gravity, animationId, isDragging, dragObject, last>>

\* The program state as one record, threaded through the handlers.
Cur ==
    [scene |-> scene, worldBodies |-> worldBodies, objects |-> objects,
     meshes |-> meshes, bodies |-> bodies, mesh |-> mesh, body |-> body,
     contactMaterials |-> contactMaterials, contactmaterials |-> contactmaterials,
     idCounter |-> idCounter, nextId |-> nextId, accumulator |-> accumulator,
     gravity |-> gravity, animationId |-> animationId,
     isDragging |-> isDragging, dragObject |-> dragObject]

Becomes(w) ==
    /\ scene' = w.scene
    /\ worldBodies' = w.worldBodies
    /\ objects' = w.objects
    /\ meshes' = w.meshes
    /\ bodies' = w.bodies
    /\ mesh' = w.mesh
    /\ body' = w.body
    /\ contactMaterials' = w.contactMaterials
    /\ contactmaterials' = w.contactmaterials
    /\ idCounter' = w.idCounter
    /\ nextId' = w.nextId
    /\ accumulator' = w.accumulator
    /\ gravity' = w.gravity
    /\ animationId' = w.animationId
    /\ isDragging' = w.isDragging
    /\ dragObject' = w.dragObject

\* The record of an operation: its name, what its caller gets back, what it
\* wrote to the console, and what it asked of the libraries.
\* op: the handler; arg: the command's type; result: "ok" or "error" (a
\* rejected promise, or the "Error: ..." string of executeAICommand);
\* warned: console.warn was called; created: handles constructed;
\* badGeometry: an object to create had a non-positive dimension;
\* unknownTarget: an action named a target outside the registry; applied:
\* actions whose target was found; steps: the sizes of the internal physics
\* steps taken; dynamic: objects integrated as DYNAMIC bodies; synced:
\* objects whose mesh was copied from the body; ran: objects whose
\* animations all ran; failed: the object whose animation threw (0: none);
\* rendered: renderer.render returned; threw: the handler threw; released:
\* the object onMouseUp released (0: none); cmd: the command parameters or
\* the specification the handler was given (None: it takes none).
NoLast ==
    [op |-> "init", arg |-> "", result |-> "ok", warned |-> FALSE, created |-> {},
     badGeometry |-> FALSE, unknownTarget |-> FALSE, applied |-> 0,
     steps |-> <<>>, dynamic |-> {}, synced |-> {}, ran |-> {}, failed |-> 0,
     rendered |-> FALSE, threw |-> FALSE, released |-> 0, cmd |-> None,
     bounced |-> {}]

Result(w, l) == [w |-> w, last |-> l]

(* ------------------------------ shapes -------------------------------- *)
\* new CANNON.Sphere(r) / new CANNON.Box(halfExtents); half extents in cm.
Sphere(r) == [kind |-> "sphere", half |-> <<r, r, r>>]
Box(hx, hy, hz) == [kind |-> "box", half |-> <<hx, hy, hz>>]

\* cannon-es Sphere's constructor throws on a negative radius; Box checks nothing.
ShapeThrows(shape) == shape.kind = "sphere" /\ shape.half[1] < 0

\* Height of a resting body's centre above the ground plane (position units).
RestExtent(shape) == Abs(shape.half[2]) \div 5

\* AICADEngine.createObject, the switch on params.type
EngineShape(p) ==
    CASE p.type = "sphere" -> Sphere(OrElse(p.radius, 60))
      [] p.type = "box" -> Box(OrElse(p.width, 20) \div 2,
                               OrElse(p.height, 20) \div 2,
                               OrElse(p.depth, 20) \div 2)
      [] OTHER -> Sphere(10)

\* NaturalLanguageCADService.createObject, the switch on obj.type
ServiceShape(o) ==
    CASE o.type = "sphere" -> Sphere(OrElse(o.radius, 6))
      [] o.type = "box" -> Box(OrElse(o.width, 10) \div 2,
                               OrElse(o.height, 10) \div 2,
                               OrElse(o.depth, 10) \div 2)
      [] o.type = "cylinder" -> Box(OrElse(o.radius, 5),
                                    OrElse(o.height, 10) \div 2,
                                    OrElse(o.radius, 5))
      [] OTHER -> Sphere(6)

\* The command gives a dimension that is not positive.
NonPositive(o) == o # None /\ Val(o) <= 0
BadGeometry(p) ==
    CASE p.type = "sphere" -> NonPositive(p.radius)
      [] p.type = "box" ->
            NonPositive(p.width) \/ NonPositive(p.height) \/ NonPositive(p.depth)
      [] p.type = "cylinder" -> NonPositive(p.radius) \/ NonPositive(p.height)
      [] OTHER -> FALSE

\* Math.PI in thousandths, and (4/3) * Math.PI in thousandths
Pi == 3142
FourThirdsPi == (4 * Pi) \div 3

\* density_kg_m3 * (4/3) * Math.PI * Math.pow(radius_m, 3), in grams, for a
\* density in kg/m^3 and a radius in cm (rounded down to the gram)
SphereMass(density, radius) ==
    (((density * radius * radius * radius) \div 1000) * FourThirdsPi) \div 1000

\* new CANNON.Body({mass, shape, material}) at pos: a body without mass is
\* STATIC.  mass in grams.
\* quaternion: the body's orientation, as angles about x, y, z (1/100 rad)
NewBody(pos, shape, material, mass) ==
    [type |-> IF mass > 0 THEN "DYNAMIC" ELSE "STATIC",
     position |-> pos, velocity |-> 0, force |-> 0, mass |-> mass,
     material |-> material, shape |-> shape, quaternion |-> <<0, 0, 0>>]

\* new THREE.Mesh(geometry, material) at pos; scale and opacity in tenths
NewMesh(pos) ==
    [position |-> pos, rotation |-> <<0, 0, 0>>, scale |-> 10,
     color |-> "#3b82f6", opacity |-> 10]

DefaultPosition == <<0, 4, 0>>

(* --------------------- registry and scene membership ------------------ *)
\* Handles the engine's registry refers to
EngineMeshes(w) == {w.objects[i].mesh : i \in DOMAIN w.objects}
EngineBodies(w) == {w.objects[i].body : i \in DOMAIN w.objects}

\* Mesh and body records are kept while something still holds the object.
Collect(w) ==
    LET ms == w.scene \cup EngineMeshes(w) \cup Range(w.meshes)
        bs == w.worldBodies \cup EngineBodies(w) \cup Range(w.bodies)
    IN [w EXCEPT !.mesh = [h \in DOMAIN w.mesh \cap ms |-> w.mesh[h]],
                 !.body = [h \in DOMAIN w.body \cap bs |-> w.body[h]]]

\* AICADEngine.removeAllObjects with the bodies left in the world
RemoveAllObjectsKeepBodies(w) ==
    Collect([w EXCEPT !.scene = @ \ EngineMeshes(w),
                      !.objects = Empty])

\* AICADEngine.removeAllObjects
RemoveAllObjects(w) ==
    Collect([w EXCEPT !.scene = @ \ EngineMeshes(w),
                      !.worldBodies = @ \ EngineBodies(w),
                      !.objects = Empty])

\* NaturalLanguageCADService.clearScene
ClearScene(w) ==
    Collect([w EXCEPT !.scene = @ \ Range(w.meshes),
                      !.meshes = Empty,
                      !.worldBodies = @ \ Range(w.bodies),
                      !.bodies = Empty])

(* ------------------------ AICADEngine commands ------------------------ *)
\* AICADEngine.createObject
EngineCreateObject(w, p) ==
    LET w1 == IF p.clearExisting /\ DOMAIN w.objects # {}
              THEN RemoveAllObjects(w) ELSE w
        id == w1.nextId
        shape == EngineShape(p)
        pos == OrElseObj(p.position, DefaultPosition)
        mass == OrElse(p.mass, DefaultMass)
        objectMaterial == NewMaterial(w1.idCounter, "object", id)
        contactMaterial == ContactMaterial(objectMaterial, GroundMaterial, 0, 4)
        cadObject == [mesh |-> id, body |-> id, isDraggable |-> TRUE,
                      isDragging |-> FALSE, dragOffset |-> <<0, 0, 0>>,
                      lockedZ |-> None, animations |-> <<>>,
                      properties |-> Empty]
        l == [NoLast EXCEPT !.op = "create_object", !.arg = p.type,
                            !.badGeometry = BadGeometry(p), !.cmd = p]
    IN IF ShapeThrows(shape)
       THEN Result(w1, [l EXCEPT !.threw = TRUE, !.result = "error"])
       ELSE Result(
              [w1 EXCEPT !.idCounter = @ + 1,
                         !.nextId = @ + 1,
                         !.contactmaterials = Append(@, contactMaterial),
                         !.mesh = With(@, id, NewMesh(pos)),
                         !.body = With(@, id, NewBody(pos, shape, objectMaterial, mass)),
                         !.scene = @ \cup {id},
                         !.worldBodies = @ \cup {id},
                         !.objects = With(@, id, cadObject)],
              [l EXCEPT !.created = {id}])

\* Keys of a Map in insertion order; ids are handed out in increasing order.
RECURSIVE InOrder(_)
InOrder(S) ==
    IF S = {} THEN <<>>
    ELSE LET m == CHOOSE x \in S : \A y \in S : x <= y
         IN <<m>> \o InOrder(S \ {m})

\* a / b rounded toward zero
Quot(a, b) == IF a < 0 THEN -((-a) \div b) ELSE a \div b

\* cannon-es Body.applyImpulse: only a DYNAMIC body takes it; the velocity
\* changes by impulse * invMass.
ApplyImpulse(b, j) ==
    IF b.type # "DYNAMIC" THEN b
    ELSE [b EXCEPT !.velocity = @ + Quot(j * DefaultMass, b.mass)]

\* cannon-es Body.applyForce: only a DYNAMIC body takes it; forces add up
\* until the next internal step clears them.
ApplyForce(b, f) ==
    IF b.type # "DYNAMIC" THEN b ELSE [b EXCEPT !.force = @ + f]

\* a registry of behaviours that stacks every registration
SetAnimationStacks(anims, a) == Append(anims, a)

\* Map.set(kind, closure): an existing key keeps its place.
SetAnimation(anims, a) ==
    IF \E k \in DOMAIN anims : anims[k].kind = a.kind
    THEN [k \in DOMAIN anims |-> IF anims[k].kind = a.kind THEN a ELSE anims[k]]
    ELSE Append(anims, a)

\* mat.id === 'object' || mat.id === 'bouncy': Material.id is a number, and
\* a number is never strictly equal to a string.
IdIsTag(m) == FALSE

\* The filter predicate of applyPhysics: TRUE for the entries it keeps.
KeepsContactMaterial(cm, groundMaterial) ==
    /\ ~(IdIsTag(cm.m1) /\ cm.m2 = groundMaterial)
    /\ ~(IdIsTag(cm.m2) /\ cm.m1 = groundMaterial)

\* world.contactMaterials.filter(...) against the ground material
FilterContactMaterials(s, groundMaterial) ==
    LET F[k \in 0..Len(s)] ==
            IF k = 0 THEN <<>>
            ELSE IF KeepsContactMaterial(s[k], groundMaterial)
                 THEN Append(F[k - 1], s[k]) ELSE F[k - 1]
    IN F[Len(s)]

\* the body of the 'bounce' forEach registering bounceAnimation whether or
\* not params.continuous is set
BounceOneAlwaysRegisters(w, id, p) ==
    LET b == w.objects[id].body
        bouncyMaterial == NewMaterial(w.idCounter, "bouncy", b)
        bounceContactMaterial ==
            ContactMaterial(bouncyMaterial, GroundMaterial, OrElse(p.restitution, 8), 1)
        impulse == OrElse(p.initial_velocity, DefaultImpulseY)
        b1 == ApplyImpulse([w.body[b] EXCEPT !.material = bouncyMaterial], impulse)
    IN [w EXCEPT !.idCounter = @ + 1,
                 !.body[b] = b1,
                 !.contactMaterials = FilterContactMaterials(@, GroundMaterial),
                 !.contactmaterials = Append(@, bounceContactMaterial),
                 !.objects[id].animations =
                     SetAnimation(@, [kind |-> "bounce", arg |-> Some(impulse)])]

\* applyPhysics, type 'bounce', the body of objects.forEach for one object
BounceOne(w, id, p) ==
    LET b == w.objects[id].body
        bouncyMaterial == NewMaterial(w.idCounter, "bouncy", b)
        bounceContactMaterial ==
            ContactMaterial(bouncyMaterial, GroundMaterial, OrElse(p.restitution, 8), 1)
        impulse == OrElse(p.initial_velocity, DefaultImpulseY)
        b1 == ApplyImpulse([w.body[b] EXCEPT !.material = bouncyMaterial], impulse)
        anims == IF p.continuous
                 THEN SetAnimation(w.objects[id].animations,
                                   [kind |-> "bounce", arg |-> Some(impulse)])
                 ELSE w.objects[id].animations
    IN [w EXCEPT !.idCounter = @ + 1,
                 !.body[b] = b1,
                 !.contactMaterials = FilterContactMaterials(@, GroundMaterial),
                 !.contactmaterials = Append(@, bounceContactMaterial),
                 !.objects[id].animations = anims]

\* applyPhysics, type 'float', the body of objects.forEach for one object
FloatOne(w, id, p) ==
    [w EXCEPT !.objects[id].animations =
                  SetAnimation(@, [kind |-> "float", arg |-> p.force])]

\* objects.forEach(obj => ...) of 'bounce' and of 'float', threading the
\* state through the iterations
BounceEach(w, ids, p) ==
    LET F[k \in 0..Len(ids)] == IF k = 0 THEN w ELSE BounceOne(F[k - 1], ids[k], p)
    IN F[Len(ids)]

FloatEach(w, ids, p) ==
    LET F[k \in 0..Len(ids)] == IF k = 0 THEN w ELSE FloatOne(F[k - 1], ids[k], p)
    IN F[Len(ids)]

\* AICADEngine.applyPhysics
ApplyPhysics(w, p) ==
    LET ids == InOrder(DOMAIN w.objects)
        l == [NoLast EXCEPT !.op = "apply_physics", !.arg = p.type, !.cmd = p]
    IN CASE p.type = "bounce" -> Result(BounceEach(w, ids, p), l)
         [] p.type = "gravity" ->
              IF p.force = None
              THEN Result(w, [l EXCEPT !.threw = TRUE, !.result = "error"])
              ELSE Result([w EXCEPT !.gravity = OrElse(p.force, DefaultGravityY)], l)
         [] p.type = "float" -> Result(FloatEach(w, ids, p), l)
         [] OTHER -> Result(w, l)

\* createAnimation, the body of objects.forEach for one object
AnimateOne(w, id, p) ==
    LET o == w.objects[id]
    IN CASE p.type = "rotation" ->
              [w EXCEPT !.objects[id].animations =
                  SetAnimation(@, [kind |-> "rotation",
                                   arg |-> [axis |-> p.axis, speed |-> p.speed]])]
         [] p.type = "oscillate" ->
              [w EXCEPT !.objects[id].animations =
                  SetAnimation(@, [kind |-> "oscillate",
                                   arg |-> [startY |-> w.mesh[o.mesh].position[2],
                                            amplitude |-> p.amplitude,
                                            time |-> 0]])]
         [] OTHER -> w

\* AICADEngine.createAnimation
CreateAnimation(w, p) ==
    LET ids == InOrder(DOMAIN w.objects)
        F[k \in 0..Len(ids)] == IF k = 0 THEN w ELSE AnimateOne(F[k - 1], ids[k], p)
    IN Result(F[Len(ids)], [NoLast EXCEPT !.op = "animate", !.arg = p.type, !.cmd = p])

\* modifyProperty, the body of objects.forEach for one object
ModifyOne(w, id, p) ==
    LET m == w.objects[id].mesh
        w1 == CASE p.property = "color" -> [w EXCEPT !.mesh[m].color = p.value]
                [] p.property = "scale" -> [w EXCEPT !.mesh[m].scale = p.value]
                [] p.property = "opacity" -> [w EXCEPT !.mesh[m].opacity = p.value]
                [] OTHER -> w
    IN [w1 EXCEPT !.objects[id].properties = With(@, p.property, p.value)]

\* modifyProperty that also resizes the physics shape on 'scale'
ModifyPropertyResizesBody(w, p) ==
    LET ids == InOrder(DOMAIN w.objects)
        F[k \in 0..Len(ids)] ==
            IF k = 0 THEN w
            ELSE LET w1 == ModifyOne(F[k - 1], ids[k], p)
                     b == w1.objects[ids[k]].body
                 IN IF p.property = "scale"
                    THEN [w1 EXCEPT !.body[b].shape.half =
                             [i \in 1..3 |-> (@[i] * p.value) \div 10]]
                    ELSE w1
    IN Result(F[Len(ids)],
              [NoLast EXCEPT !.op = "modify_property", !.arg = p.property, !.cmd = p])

\* AICADEngine.modifyProperty
ModifyProperty(w, p) ==
    LET ids == InOrder(DOMAIN w.objects)
        F[k \in 0..Len(ids)] == IF k = 0 THEN w ELSE ModifyOne(F[k - 1], ids[k], p)
    IN Result(F[Len(ids)],
              [NoLast EXCEPT !.op = "modify_property", !.arg = p.property, !.cmd = p])

(* ------------------------- cannon-es World.step ----------------------- *)
\* The ground body's material: new CANNON.Material('ground') in the engine,
\* none in the service.
GroundBodyMaterial(s) == IF s = "engine" THEN GroundMaterial ELSE NullMaterial

\* World.getContactMaterial: the entry addContactMaterial stored last under
\* the unordered pair of material ids, if any.
ContactEntries(cms, a, b) ==
    {k \in DOMAIN cms : {cms[k].m1.id, cms[k].m2.id} = {a.id, b.id}}

\* Restitution of a body's contact with the ground: the pair's entry when
\* both bodies have a material and the table has one, else the default
\* contact material's (restitution 0).
ContactRestitution(cms, bodyMaterial, groundMaterial) ==
    LET ks == ContactEntries(cms, bodyMaterial, groundMaterial)
    IN IF bodyMaterial = NullMaterial \/ groundMaterial = NullMaterial \/ ks = {}
       THEN 0
       ELSE cms[CHOOSE k \in ks : \A j \in ks : j <= k].restitution

\* Acceleration (cm/s^2) on the integer grid of the integrator.
AccelUnits(a) == IF a < 0 THEN -((-a) \div 490) ELSE a \div 490

\* One internal step of size dt for one body of the world.
IntegrateBody(b, dt, g, e) ==
    LET floor == GroundY + RestExtent(b.shape)
        v1 == b.velocity + AccelUnits(g + Quot(100 * b.force * DefaultMass, b.mass)) * dt
        y1 == b.position[2] + v1 * dt
    IN CASE b.type = "DYNAMIC" ->
              IF y1 <= floor
              THEN [b EXCEPT !.position[2] = floor,
                             !.velocity = IF v1 < 0 THEN ((-v1) * e) \div 10 ELSE v1,
                             !.force = 0]
              ELSE [b EXCEPT !.position[2] = y1, !.velocity = v1, !.force = 0]
         [] OTHER ->
              [b EXCEPT !.position[2] = @ + b.velocity * dt, !.force = 0]

\* World.internalStep(dt)
InternalStep(w, dt, ground) ==
    [w EXCEPT !.body =
        [h \in DOMAIN w.body |->
            IF h \in w.worldBodies
            THEN IntegrateBody(w.body[h], dt, w.gravity,
                     ContactRestitution(w.contactmaterials, w.body[h].material, ground))
            ELSE w.body[h]]]

RECURSIVE InternalSteps(_, _, _, _)
InternalSteps(w, dt, n, ground) ==
    IF n = 0 THEN w ELSE InternalSteps(InternalStep(w, dt, ground), dt, n - 1, ground)

\* Number of internal steps World.step(dt, timeSinceLastCalled, maxSubSteps) takes
SubSteps(acc, dt, maxSubSteps) == Min(acc \div dt, maxSubSteps)

\* World.step(dt, timeSinceLastCalled, maxSubSteps): the accumulator form
StepFixed(w, dt, timeSinceLastCalled, maxSubSteps, ground) ==
    LET acc == w.accumulator + timeSinceLastCalled
        n == SubSteps(acc, dt, maxSubSteps)
        w1 == InternalSteps(w, dt, n, ground)
    IN [w |-> [w1 EXCEPT !.accumulator = (acc - n * dt) % dt],
        steps |-> [k \in 1..n |-> dt]]

\* World.step(dt) with no timeSinceLastCalled: one internal step of size dt
StepOnce(w, dt, ground) ==
    [w |-> InternalStep(w, dt, ground), steps |-> <<dt>>]

(* --------------------------- frame callbacks -------------------------- *)
\* switch (params.axis): 'x', 'y', 'z', default y
AxisIndex(axis) ==
    CASE axis = "x" -> 1
      [] axis = "z" -> 3
      [] OTHER -> 2

\* Math.sin(time * frequency), sampled at quarter periods
Sin4(t) ==
    CASE t = 1 -> 1
      [] t = 3 -> -1
      [] OTHER -> 0

\* One registered animation closure, run once.  [w, threw]
\* a keep-bouncing test that needs only one of the two conditions
NearGroundOrSlow(b) ==
    b.position[2] < BounceY \/ Abs(b.velocity) < BounceSpeed

\* obj.body.position.y < -0.35 && Math.abs(obj.body.velocity.y) < 0.5
NearGroundAndSlow(b) ==
    b.position[2] < BounceY /\ Abs(b.velocity) < BounceSpeed

RunAnimation(w, id, a) ==
    LET b == w.objects[id].body
    IN CASE a.kind = "bounce" ->
              [w |-> IF NearGroundAndSlow(w.body[b])
                     THEN [w EXCEPT !.body[b] = ApplyImpulse(@, Val(a.arg))]
                     ELSE w,
               threw |-> FALSE]
         [] a.kind = "float" ->
              IF a.arg = None
              THEN [w |-> w, threw |-> TRUE]
              ELSE [w |-> [w EXCEPT !.body[b] =
                               ApplyForce(@, OrElse(a.arg, DefaultFloatY))],
                    threw |-> FALSE]
         [] a.kind = "rotation" ->
              [w |-> [w EXCEPT !.mesh[w.objects[id].mesh].rotation[AxisIndex(a.arg.axis)] =
                                   @ + OrElse(a.arg.speed, DefaultSpeed)],
               threw |-> FALSE]
         [] a.kind = "oscillate" ->
              LET time == (a.arg.time + 1) % 4
                  newY == a.arg.startY
                          + Sin4(time) * OrElse(a.arg.amplitude, DefaultAmplitude)
                  k == CHOOSE j \in DOMAIN w.objects[id].animations :
                          w.objects[id].animations[j].kind = "oscillate"
              IN [w |-> [w EXCEPT !.body[b].position[2] = newY,
                                  !.objects[id].animations[k].arg.time = time],
                  threw |-> FALSE]
         [] OTHER -> [w |-> w, threw |-> FALSE]

\* obj.animations.forEach(animation => animation()): stops at the first throw.
\* bounced: the keep-bouncing closure applied its impulse.
RunAnimations(w, id) ==
    LET anims == w.objects[id].animations
        F[k \in 0..Len(anims)] ==
            IF k = 0 THEN [w |-> w, threw |-> FALSE, bounced |-> FALSE]
            ELSE IF F[k - 1].threw THEN F[k - 1]
            ELSE LET r == RunAnimation(F[k - 1].w, id, anims[k])
                 IN [w |-> r.w, threw |-> r.threw,
                     bounced |-> F[k - 1].bounced
                                 \/ (anims[k].kind = "bounce"
                                     /\ NearGroundAndSlow(
                                            F[k - 1].w.body[w.objects[id].body]))]
    IN F[Len(anims)]

\* mesh.position.copy(body.position); mesh.quaternion.copy(body.quaternion),
\* which THREE mirrors into mesh.rotation
SyncMesh(w, m, b) ==
    [w EXCEPT !.mesh[m].position = w.body[b].position,
              !.mesh[m].rotation = w.body[b].quaternion]

\* The body of this.objects.forEach in animate, for one object.
\* st = [w, failed, synced, ran, bounced]
FrameObject(st, id) ==
    IF st.failed # 0 THEN st
    ELSE LET o == st.w.objects[id]
             w1 == IF ~o.isDragging THEN SyncMesh(st.w, o.mesh, o.body) ELSE st.w
             r == RunAnimations(w1, id)
         IN [w |-> r.w,
             bounced |-> IF r.bounced THEN st.bounced \cup {id} ELSE st.bounced,
             failed |-> IF r.threw THEN id ELSE 0,
             synced |-> IF ~o.isDragging THEN st.synced \cup {id} ELSE st.synced,
             ran |-> IF r.threw THEN st.ran ELSE st.ran \cup {id}]

\* Objects whose bodies an internal step integrates as DYNAMIC bodies
DynamicObjects(w) ==
    {i \in DOMAIN w.objects :
        /\ w.objects[i].body \in w.worldBodies
        /\ w.body[w.objects[i].body].type = "DYNAMIC"}

\* AICADEngine.startAnimation, the animate callback after its first
\* statement.  fault names a call into a library that throws in this frame:
\* "step" (world.step), "render" (renderer.render) or "none".
EngineAnimate(w, delta, fault) ==
    LET stepped == StepFixed(w, FixedTimeStep, delta, MaxSubSteps, GroundMaterial)
        ids == InOrder(DOMAIN w.objects)
        F[k \in 0..Len(ids)] ==
            IF k = 0
            THEN [w |-> stepped.w, failed |-> 0, synced |-> {}, ran |-> {},
                  bounced |-> {}]
            ELSE FrameObject(F[k - 1], ids[k])
        done == F[Len(ids)]
        threw == done.failed # 0 \/ fault = "render"
        l == [NoLast EXCEPT !.op = "frame", !.arg = fault]
    IN IF fault = "step"
       THEN Result(w, [l EXCEPT !.threw = TRUE, !.result = "error"])
       ELSE Result(done.w,
                   [l EXCEPT !.steps = stepped.steps,
                             !.dynamic = IF stepped.steps = <<>> THEN {}
                                         ELSE DynamicObjects(w),
                             !.synced = done.synced, !.ran = done.ran,
                             !.bounced = done.bounced,
                             !.failed = done.failed,
                             !.threw = threw, !.rendered = ~threw,
                             !.result = IF threw THEN "error" ELSE "ok"])

\* animate with requestAnimationFrame as its last statement
EngineFrameArmsLast(w, delta, fault) ==
    LET r == EngineAnimate(w, delta, fault)
    IN Result([r.w EXCEPT !.animationId = IF r.last.threw THEN 0 ELSE 1], r.last)

\* AICADEngine.startAnimation, the animate callback:
\* this.animationId = requestAnimationFrame(animate) comes first.
EngineFrame(w, delta, fault) ==
    EngineAnimate([w EXCEPT !.animationId = 1], delta, fault)

\* NaturalLanguageCADService.startAnimation, the animate callback
ServiceFrame(w, deltaTime, fault) ==
    LET armed == [w EXCEPT !.animationId = 1]
        stepped == StepOnce(armed, deltaTime, NullMaterial)
        ids == {i \in DOMAIN w.bodies : i \in DOMAIN w.meshes}
        MeshIdOf(h) == CHOOSE i \in ids : w.meshes[i] = h
        synced == [stepped.w EXCEPT !.mesh =
                      [h \in DOMAIN stepped.w.mesh |->
                          IF \E i \in ids : w.meshes[i] = h
                          THEN [stepped.w.mesh[h] EXCEPT
                                  !.position =
                                      stepped.w.body[w.bodies[MeshIdOf(h)]].position,
                                  !.rotation =
                                      stepped.w.body[w.bodies[MeshIdOf(h)]].quaternion]
                          ELSE stepped.w.mesh[h]]]
        l == [NoLast EXCEPT !.op = "frame", !.arg = fault]
    IN IF fault = "step"
       THEN Result(armed, [l EXCEPT !.threw = TRUE, !.result = "error"])
       ELSE Result(synced,
                   [l EXCEPT !.steps = stepped.steps, !.synced = ids,
                             !.threw = fault = "render",
                             !.rendered = fault # "render",
                             !.result = IF fault = "render" THEN "error" ELSE "ok"])

(* ----------------- NaturalLanguageCADService commands ----------------- *)
\* NaturalLanguageCADService.createObject.  [w, threw, created]
ServiceCreateObject(w, o) ==
    LET shape == ServiceShape(o)
        h == w.nextId
        pos == OrElseObj(o.position, DefaultPosition)
    IN IF ShapeThrows(shape)
       THEN [w |-> w, threw |-> TRUE, created |-> {}]
       ELSE [w |-> [w EXCEPT !.nextId = @ + 1,
                             !.mesh = With(@, h, NewMesh(pos)),
                             !.scene = @ \cup {h},
                             !.meshes = With(@, o.id, h),
                             !.body = With(@, h, NewBody(pos, shape, NullMaterial,
                                                        OrElseObj(o.mass_kg, 0))),
                             !.worldBodies = @ \cup {h},
                             !.bodies = With(@, o.id, h)],
             threw |-> FALSE, created |-> {h}]

\* NaturalLanguageCADService.executeAction, the switch on action.type
ServiceApplyAction(w, a) ==
    LET b == w.bodies[a.target]
        material == NewMaterial(w.idCounter, "bouncy", b)
        contactMaterial ==
            ContactMaterial(material, material, OrElse(a.value, 8), 4)
        frictionMaterial == NewMaterial(w.idCounter, "friction", b)
    IN CASE a.type = "set_restitution" ->
              [w EXCEPT !.idCounter = @ + 1,
                        !.contactmaterials = Append(@, contactMaterial),
                        !.body[b].material = material]
         [] a.type = "apply_impulse" ->
              IF OrElse(a.impulse_Ns, 0) # 0 /\ a.direction # None
              THEN [w EXCEPT !.body[b] =
                       ApplyImpulse(@, Val(a.direction) * Val(a.impulse_Ns))]
              ELSE w
         [] a.type = "set_friction" ->
              [w EXCEPT !.idCounter = @ + 1,
                        !.body[b].material = frictionMaterial]
         [] a.type = "apply_force" ->
              IF OrElse(a.force_N, 0) # 0 /\ a.direction # None
              THEN [w EXCEPT !.body[b] =
                       ApplyForce(@, Val(a.direction) * Val(a.force_N))]
              ELSE w
         [] OTHER -> w

\* executeAction that falls back to some registered object when the target
\* is unknown
ServiceExecuteActionFallsBack(w, a) ==
    IF a.target \notin DOMAIN w.bodies
    THEN [w |-> IF DOMAIN w.bodies = {} THEN w
                ELSE ServiceApplyAction(
                        w, [a EXCEPT !.target = CHOOSE t \in DOMAIN w.bodies : TRUE]),
          unknownTarget |-> TRUE]
    ELSE [w |-> ServiceApplyAction(w, a), unknownTarget |-> FALSE]

\* NaturalLanguageCADService.executeAction.  [w, unknownTarget]
ServiceExecuteAction(w, a) ==
    IF a.target \notin DOMAIN w.bodies
    THEN [w |-> w, unknownTarget |-> TRUE]
    ELSE [w |-> ServiceApplyAction(w, a), unknownTarget |-> FALSE]

\* if (!this.meshes.has(obj.id)) await this.createObject(obj), for each object
\* st = [w, threw, created, bad]
CreateEach(st, o) ==
    IF st.threw \/ o.id \in DOMAIN st.w.meshes THEN st
    ELSE LET r == ServiceCreateObject(st.w, o)
         IN [w |-> r.w, threw |-> r.threw, created |-> st.created \cup r.created,
             bad |-> st.bad \/ BadGeometry(o)]

\* NaturalLanguageCADService.executeSpecification; deltaTime is what
\* clock.getDelta() returns, and fault the library call that throws, in the
\* frame that runs if this call starts the animation loop.
ExecuteSpecification(w, spec, deltaTime, fault) ==
    LET hasNewObjects == \E k \in DOMAIN spec.objects :
                            spec.objects[k].id \notin DOMAIN w.meshes
        w1 == IF spec.intent = "create" /\ Len(spec.objects) > 0 /\ hasNewObjects
              THEN ClearScene(w) ELSE w
        C[k \in 0..Len(spec.objects)] ==
            IF k = 0 THEN [w |-> w1, threw |-> FALSE, created |-> {}, bad |-> FALSE]
            ELSE CreateEach(C[k - 1], spec.objects[k])
        c == C[Len(spec.objects)]
        A[k \in 0..Len(spec.actions)] ==
            IF k = 0 THEN [w |-> c.w, unknownTarget |-> FALSE, applied |-> 0]
            ELSE LET r == ServiceExecuteAction(A[k - 1].w, spec.actions[k])
                 IN [w |-> r.w,
                     unknownTarget |-> A[k - 1].unknownTarget \/ r.unknownTarget,
                     applied |-> A[k - 1].applied + (IF r.unknownTarget THEN 0 ELSE 1)]
        a == A[Len(spec.actions)]
        started == IF a.w.animationId = 0
                   THEN ServiceFrame(a.w, deltaTime, fault)
                   ELSE Result(a.w, NoLast)
        l == [NoLast EXCEPT !.op = "executeSpecification", !.arg = spec.intent,
                            !.created = c.created, !.badGeometry = c.bad,
                            !.cmd = spec]
    IN IF c.threw
       THEN Result(c.w, [l EXCEPT !.threw = TRUE, !.result = "error"])
       ELSE Result(started.w,
                   [l EXCEPT !.unknownTarget = a.unknownTarget,
                             !.warned = a.unknownTarget,
                             !.applied = a.applied,
                             !.steps = started.last.steps,
                             !.synced = started.last.synced,
                             !.rendered = started.last.rendered,
                             !.threw = started.last.threw,
                             !.result = started.last.result])

\* stopAnimation that leaves the frame request in place
StopAnimationKeepsArmed(w) == w

\* stopAnimation of either class
StopAnimation(w) == [w EXCEPT !.animationId = 0]

\* AICADEngine.dispose
EngineDispose(w) == RemoveAllObjects(StopAnimation(w))

\* NaturalLanguageCADService.dispose
ServiceDispose(w) == ClearScene(StopAnimation(w))

(* ------------------------- pointer handlers --------------------------- *)
\* AICADEngine.onMouseDown; hit is the object whose mesh the ray meets first
\* (0: none), offset is intersects[0].point - mesh.position.
OnMouseDown(w, hit, offset) ==
    IF hit = 0 THEN w
    ELSE [w EXCEPT !.isDragging = TRUE,
                   !.dragObject = hit,
                   !.objects[hit].isDragging = TRUE,
                   !.objects[hit].dragOffset = offset,
                   !.objects[hit].lockedZ = Some(w.mesh[w.objects[hit].mesh].position[3]),
                   !.body[w.objects[hit].body].type = "KINEMATIC"]

\* Math.max(-maxRange, Math.min(maxRange, v))
Clamp(v) == Max(-MaxRange, Min(MaxRange, v))

\* a drag target that keeps the depth of the ray's hit point
DragTargetFollowsRay(hit, dragOffset, lockedZ) ==
    <<Clamp(hit[1] - dragOffset[1]), Clamp(hit[2] - dragOffset[2]),
      hit[3] - dragOffset[3]>>

\* The position onMouseMove writes for a ray that meets the drag plane at hit
DragTarget(hit, dragOffset, lockedZ) ==
    <<Clamp(hit[1] - dragOffset[1]), Clamp(hit[2] - dragOffset[2]), OrElse(lockedZ, 0)>>

\* AICADEngine.onMouseMove; planeHit is None when the ray misses the drag plane.
\* A dragObject that was removed from the registry is still written to, but is
\* no longer part of the scene or the world.
OnMouseMove(w, planeHit) ==
    IF ~w.isDragging \/ w.dragObject = 0 \/ planeHit = None
       \/ w.dragObject \notin DOMAIN w.objects
    THEN w
    ELSE LET o == w.objects[w.dragObject]
             newPosition == DragTarget(Val(planeHit), o.dragOffset, o.lockedZ)
         IN [w EXCEPT !.mesh[o.mesh].position = newPosition,
                      !.body[o.body].position = newPosition]

\* AICADEngine.onMouseUp (also the mouseleave handler)
OnMouseUp(w) ==
    IF w.isDragging /\ w.dragObject # 0
    THEN LET live == w.dragObject \in DOMAIN w.objects
             w1 == IF live
                   THEN [w EXCEPT !.body[w.objects[w.dragObject].body].type = "DYNAMIC",
                                  !.objects[w.dragObject].isDragging = FALSE]
                   ELSE w
         IN [w1 EXCEPT !.dragObject = 0, !.isDragging = FALSE]
    ELSE [w EXCEPT !.isDragging = FALSE]

(* ------------------------------- inputs ------------------------------- *)
\* parameters of a create_object command
CreateParam(t, r, h, c, pos) ==
    [type |-> t, radius |-> r, width |-> None, height |-> h, depth |-> None,
     clearExisting |-> c, position |-> pos, mass |-> None, density |-> None]

\* parameters of an apply_physics command
Bounce(r, v, c) ==
    [type |-> "bounce", restitution |-> r, initial_velocity |-> v,
     continuous |-> c, force |-> None]
Physics(t, f) ==
    [type |-> t, restitution |-> None, initial_velocity |-> None,
     continuous |-> FALSE, force |-> f]

\* a create_object command for a sphere with a density and a mass
CreateSphere(r, density, mass) ==
    [CreateParam("sphere", r, None, TRUE, None) EXCEPT
        !.density = density, !.mass = mass]

\* objects and actions of a CADSpecification
SpecObject(id, t, r, h) ==
    [id |-> id, type |-> t, radius |-> r, width |-> None, height |-> h,
     depth |-> None, position |-> None,
     density_kg_m3 |-> Some(DefaultDensity), mass_kg |-> Some(DefaultMass)]
SpecAction(t, target, v, j, f, d) ==
    [type |-> t, target |-> target, value |-> v, impulse_Ns |-> j,
     force_N |-> f, direction |-> d]
Specification(i, os, as) == [intent |-> i, objects |-> os, actions |-> as]

\* NaturalLanguageCADService.parseNaturalLanguage, "make me a ... ball":
\* size is the diameter the input names (cm), None when it names none.
ParseBall(size) ==
    LET diameter_m == IF size = None THEN DefaultDiameter ELSE Val(size)
        radius_m == diameter_m \div 2
        density_kg_m3 == DefaultDensity
        mass_kg == SphereMass(density_kg_m3, radius_m)
    IN Specification("create",
           <<[SpecObject("o1", "sphere", Some(radius_m), None) EXCEPT
                 !.density_kg_m3 = Some(density_kg_m3),
                 !.mass_kg = Some(mass_kg),
                 !.position = Some(DefaultPosition)]>>,
           <<>>)

\* The inputs a run draws from: create and apply_physics parameters, wall
\* time between frames (1/120 s), pointer offsets and drag-plane hits, and
\* the service's specifications.
Inputs(create, physics, deltas, faults, offsets, planeHits, specifications) ==
    [create |-> create, physics |-> physics, deltas |-> deltas, faults |-> faults,
     offsets |-> offsets, planeHits |-> planeHits,
     specifications |-> specifications]

\* parameters of an animate command
Rotation(axis, speed) ==
    [type |-> "rotation", axis |-> axis, speed |-> speed, amplitude |-> None]
Oscillate(amplitude) ==
    [type |-> "oscillate", axis |-> "", speed |-> None, amplitude |-> amplitude]

\* parameters of a modify_property command
Modify(property, value) == [property |-> property, value |-> value]

(* --------------------------- bounds of a run -------------------------- *)
\* The state stays inside the part of the state space the model follows.
WithinBounds(w) ==
    /\ w.nextId <= MaxHandles + 1
    /\ w.idCounter <= MaxMaterials + 2
    /\ \A h \in DOMAIN w.body :
          /\ Abs(w.body[h].velocity) <= MaxSpeed
          /\ w.body[h].position[2] <= MaxHeight
          /\ Abs(w.body[h].force) <= MaxForce
    /\ \A h \in DOMAIN w.mesh :
          \A i \in 1..3 : Abs(w.mesh[h].rotation[i]) <= MaxAngle

Does(r) == WithinBounds(r.w) /\ Becomes(r.w) /\ last' = r.last /\ sys' = sys

Op(name) == [NoLast EXCEPT !.op = name]

(* ------------------------------ actions ------------------------------- *)
InitOf(s) ==
    /\ sys = s
    /\ scene = {}
    /\ worldBodies = {}
    /\ objects = Empty
    /\ meshes = Empty
    /\ bodies = Empty
    /\ mesh = Empty
    /\ body = Empty
    /\ contactMaterials = <<>>
    /\ contactmaterials = <<>>
    /\ idCounter = 2
    /\ nextId = 1
    /\ accumulator = 0
    /\ gravity = InitialGravityY
    /\ animationId = IF s = "engine" THEN 1 ELSE 0
    /\ isDragging = FALSE
    /\ dragObject = 0
    /\ last = NoLast

\* executeAICommand with a create_object command
CreateObject(I) ==
    /\ sys = "engine"
    /\ \E p \in I.create : Does(EngineCreateObject(Cur, p))

\* executeAICommand with an apply_physics command
ApplyPhysicsCommand(I) ==
    /\ sys = "engine"
    /\ \E p \in I.physics : Does(ApplyPhysics(Cur, p))

\* a frame callback of the engine fires
Frame(I) ==
    /\ sys = "engine"
    /\ animationId # 0
    /\ \E delta \in I.deltas, fault \in I.faults : Does(EngineFrame(Cur, delta, fault))

\* executeAICommand with an animate command
AnimateCommand(P) ==
    /\ sys = "engine"
    /\ \E p \in P : Does(CreateAnimation(Cur, p))

\* executeAICommand with a modify_property command
ModifyPropertyCommand(P) ==
    /\ sys = "engine"
    /\ \E p \in P : Does(ModifyProperty(Cur, p))

MouseDown(I) ==
    /\ sys = "engine"
    /\ \E hit \in DOMAIN objects \cup {0}, offset \in I.offsets :
          Does(Result(OnMouseDown(Cur, hit, offset), Op("mousedown")))

MouseMove(I) ==
    /\ sys = "engine"
    /\ \E planeHit \in I.planeHits :
          Does(Result(OnMouseMove(Cur, planeHit), Op("mousemove")))

MouseUp ==
    /\ sys = "engine"
    /\ Does(Result(OnMouseUp(Cur), [Op("mouseup") EXCEPT !.released = dragObject]))

StopEngine ==
    /\ sys = "engine"
    /\ Does(Result(StopAnimation(Cur), Op("stopAnimation")))

RemoveAll ==
    /\ sys = "engine"
    /\ Does(Result(RemoveAllObjects(Cur), Op("removeAllObjects")))

DisposeEngine ==
    /\ sys = "engine"
    /\ Does(Result(EngineDispose(Cur), Op("dispose")))

\* executeSpecification of the service
Execute(I) ==
    /\ sys = "service"
    /\ \E spec \in I.specifications :
          \E deltaTime \in (IF animationId = 0 THEN I.deltas ELSE {0}),
             fault \in (IF animationId = 0 THEN I.faults ELSE {"none"}) :
              Does(ExecuteSpecification(Cur, spec, deltaTime, fault))

\* a frame callback of the service fires
ServiceFrameStep(I) ==
    /\ sys = "service"
    /\ animationId # 0
    /\ \E deltaTime \in I.deltas, fault \in I.faults :
          Does(ServiceFrame(Cur, deltaTime, fault))

StopService ==
    /\ sys = "service"
    /\ Does(Result(StopAnimation(Cur), Op("stopAnimation")))

DisposeService ==
    /\ sys = "service"
    /\ Does(Result(ServiceDispose(Cur), Op("dispose")))

(* ---------- registry and contact materials: Spec ----------------------- *)
RegistryInputs ==
    Inputs({CreateParam("sphere", r, None, c, None) :
                r \in {None, Some(0), Some(-5)}, c \in BOOLEAN}
             \cup {CreateParam("box", None, Some(-20), FALSE, None)},
           {Bounce(None, None, FALSE), Physics("float", None)},
           {2},
           {"none", "step", "render"},
           {},
           {},
           {Specification("create", <<SpecObject("o1", "sphere", None, None)>>, <<>>),
            Specification("create",
                          <<SpecObject("o2", "cylinder", Some(5), Some(-10))>>, <<>>),
            Specification("create",
                          <<SpecObject("o1", "sphere", Some(0), None),
                            SpecObject("o2", "sphere", Some(-5), None)>>, <<>>),
            Specification("action",
                          <<SpecObject("o1", "sphere", None, None)>>,
                          <<SpecAction("set_restitution", "o1", None, None, None, None)>>),
            Specification("action", <<>>,
                          <<SpecAction("set_restitution", "o1", None, None, None, None)>>),
            Specification("action", <<>>,
                          <<SpecAction("set_friction", "o1", Some(2), None, None, None)>>),
            Specification("action", <<>>,
                          <<SpecAction("apply_impulse", "o9", None, Some(5), None, Some(1)),
                            SpecAction("apply_force", "o9", None, None, Some(10), Some(1))>>)})

Init == sys \in {"engine", "service"} /\ InitOf(sys)

Next ==
    \/ CreateObject(RegistryInputs)
    \/ ApplyPhysicsCommand(RegistryInputs)
    \/ Frame(RegistryInputs)
    \/ StopEngine
    \/ RemoveAll
    \/ DisposeEngine
    \/ Execute(RegistryInputs)
    \/ ServiceFrameStep(RegistryInputs)
    \/ StopService
    \/ DisposeService

Spec == Init /\ [][Next]_vars

(* ---------- properties of Spec ----------------------------------------- *)
\* What the registry, the scene and the world hold, as sets of handles
RegisteredMeshes == IF sys = "engine" THEN EngineMeshes(Cur) ELSE Range(meshes)
RegisteredBodies == IF sys = "engine" THEN EngineBodies(Cur) ELSE Range(bodies)

\* C1: whatever creations, clears, actions, frames and disposes have run,
\* every registered object has its mesh in the scene and its body in the
\* world, and the scene and the world hold no object mesh or non-ground body
\* that the registry does not refer to (in the service, the two maps also
\* have the same keys).
HalvesTogether ==
    /\ RegisteredMeshes = scene
    /\ RegisteredBodies = worldBodies
    /\ DOMAIN meshes = DOMAIN bodies
    /\ \A id \in DOMAIN objects :
          objects[id].mesh \in DOMAIN mesh /\ objects[id].body \in DOMAIN body

\* C1 witness: an object was created after an earlier one had been cleared
\* away, and it is the only one in the registry, the scene and the world.
HalvesTogetherWitness ==
    /\ sys = "engine"
    /\ last.op = "create_object"
    /\ last.created # {}
    /\ nextId > 2
    /\ DOMAIN objects = last.created
    /\ scene = last.created
    /\ worldBodies = last.created

\* The unordered pair of material names of a contact-material entry
TagPair(cm) == {cm.m1.name, cm.m2.name}

\* C3: the contact-material table holds at most one entry for each
\* unordered pair of material tags.
OneEntryPerTagPair ==
    \A i, j \in DOMAIN contactmaterials :
        i # j => TagPair(contactmaterials[i]) # TagPair(contactmaterials[j])

\* Entries of the table that pair a material made for body b with the ground
GroundEntriesOf(b) ==
    {k \in DOMAIN contactmaterials :
        LET cm == contactmaterials[k]
        IN \/ cm.m1.owner = b /\ cm.m2 = GroundMaterial
           \/ cm.m2.owner = b /\ cm.m1 = GroundMaterial}

\* C4: after a bounce command or a set_restitution action, however many
\* came before it, no registered object has more than one contact-material
\* entry for its pair with the ground.
OneGroundEntryPerObject ==
    (\/ last.op = "apply_physics" /\ last.arg = "bounce"
     \/ last.op = "executeSpecification" /\ last.applied > 0)
    => \A b \in RegisteredBodies : Cardinality(GroundEntriesOf(b)) <= 1

\* C5: an executeSpecification call that creates nothing and whose actions
\* all name targets outside the registry, made while the loop is running,
\* leaves the registry, the scene, the world, every mesh and body, the
\* contact-material table and the material counter as they were, and the
\* frame callback armed.
UnknownTargetChangesNothing ==
    [][(/\ last'.op = "executeSpecification"
        /\ last'.unknownTarget
        /\ last'.applied = 0
        /\ last'.created = {}
        /\ ~last'.threw
        /\ animationId # 0)
       => /\ UNCHANGED <<scene, worldBodies, objects, meshes, bodies, mesh, body,
                         contactMaterials, contactmaterials, idCounter, nextId,
                         accumulator, gravity, isDragging, dragObject>>
          /\ animationId' # 0]_vars

\* C5 witness: actions on unknown targets were executed, none was applied,
\* while objects exist and the loop is running.
UnknownTargetWitness ==
    /\ last.op = "executeSpecification"
    /\ last.unknownTarget
    /\ last.applied = 0
    /\ last.created = {}
    /\ ~last.threw
    /\ ~last.rendered
    /\ DOMAIN bodies # {}
    /\ animationId # 0

\* C6: when an action names a target outside the registry, the caller of
\* the executor gets an error back.
UnknownTargetReported == last.unknownTarget => last.result = "error"

\* C7: a creation command with a dimension that is not positive creates no
\* mesh, body or registry entry, and its caller gets an error back.
NonPositiveRejected ==
    last.badGeometry => last.created = {} /\ last.result = "error"

\* C9: the frame callback is armed after every frame, also after one in
\* which the step, an animation or the render threw, and only stopAnimation
\* and dispose disarm it.
LoopSurvivesErrors ==
    [][/\ last'.op = "frame" => animationId' # 0
       /\ (animationId # 0 /\ animationId' = 0)
             => last'.op \in {"stopAnimation", "dispose"}]_vars

\* C9 witness: a frame in which an animation threw has run and the frame
\* callback is armed.
LoopSurvivesErrorsWitness ==
    /\ last.op = "frame"
    /\ last.threw
    /\ last.failed # 0
    /\ animationId # 0

\* C10: in a frame in which no library call fails, every registered object
\* that is not being dragged is synced, every object other than one whose
\* animation threw has its animations run, and the frame is rendered.
FailureContained ==
    (last.op = "frame" /\ last.arg = "none")
    => /\ \A id \in DOMAIN objects :
             /\ ~objects[id].isDragging => id \in last.synced
             /\ id # last.failed => id \in last.ran
       /\ last.rendered

(* ---------- the frame loop under varying frame times: SpecLoop --------- *)
\* Frame times from half a fixed step (a 120 Hz display) to 4.5 fixed steps
\* (a stalled tab); objects that bounce, and impulses applied by the service.
LoopInputs ==
    Inputs({CreateParam("sphere", Some(10), None, FALSE, None)},
           {Bounce(None, None, TRUE), Bounce(None, None, FALSE),
            Physics("gravity", Some(0))},
           {1, 2, 5, 9},
           {"none"},
           {},
           {},
           {Specification("create", <<SpecObject("o1", "sphere", None, None)>>, <<>>),
            Specification("action", <<>>,
                          <<SpecAction("apply_impulse", "o1", None, Some(5), None, Some(1))>>),
            Specification("action", <<>>,
                          <<SpecAction("apply_force", "o1", None, None, Some(10), Some(1))>>)})

NextLoop ==
    \/ CreateObject(LoopInputs)
    \/ ApplyPhysicsCommand(LoopInputs)
    \/ Frame(LoopInputs)
    \/ StopEngine
    \/ Execute(LoopInputs)
    \/ ServiceFrameStep(LoopInputs)
    \/ StopService

SpecLoop == Init /\ [][NextLoop]_vars

\* C8: every frame advances physics by at most MaxSubSteps internal steps,
\* each of exactly FixedTimeStep, whatever time has passed since the last.
FixedIncrements ==
    last.op \in {"frame", "executeSpecification"}
    => /\ Len(last.steps) <= MaxSubSteps
       /\ \A k \in DOMAIN last.steps : last.steps[k] = FixedTimeStep

\* C13: a force applied to a body stays in force from tick to tick: the
\* force a frame's physics step finds on a body of the world is on it again
\* after the frame, for the next step.
ForcePersists ==
    [][last'.op = "frame" =>
        \A h \in worldBodies \cap worldBodies' :
            body[h].force # 0 => body'[h].force = body[h].force]_vars

\* An impulse command: the engine's bounce, or a specification whose one
\* action is an apply_impulse on a registered target, run while the loop is on
EngineImpulse == sys = "engine" /\ last'.op = "apply_physics" /\ last'.arg = "bounce"
ServiceImpulse ==
    /\ sys = "service"
    /\ last'.op = "executeSpecification"
    /\ last'.created = {}
    /\ last'.applied = 1
    /\ Len(last'.cmd.actions) = 1
    /\ last'.cmd.actions[1].type = "apply_impulse"
    /\ animationId # 0

\* C14 as stated: an impulse command registers nothing in any object's
\* animations.
ImpulseRegistersNothing ==
    [][EngineImpulse =>
        \A id \in DOMAIN objects : objects'[id].animations = objects[id].animations]_vars

\* C14, amended: a bounce without `continuous`, and the service's
\* apply_impulse, add the impulse to the velocity of each DYNAMIC target once
\* and register nothing; and in a frame, the body of an object that has no
\* animations changes exactly as the frame's physics steps move it.
ImpulseOnce ==
    [][/\ (EngineImpulse /\ ~last'.cmd.continuous) =>
            \A id \in DOMAIN objects :
                LET b == objects[id].body
                IN /\ objects'[id].animations = objects[id].animations
                   /\ body'[b].velocity =
                        IF body[b].type = "DYNAMIC"
                        THEN body[b].velocity
                             + OrElse(last'.cmd.initial_velocity, DefaultImpulseY)
                        ELSE body[b].velocity
       /\ ServiceImpulse =>
            LET a == last'.cmd.actions[1]
                b == bodies[a.target]
            IN /\ objects' = objects
               /\ body'[b].velocity =
                    body[b].velocity + Val(a.direction) * Val(a.impulse_Ns)
       /\ (last'.op = "frame" /\ sys = "engine") =>
            \A id \in DOMAIN objects :
                objects[id].animations = <<>> =>
                    body'[objects[id].body] =
                        InternalSteps(Cur, FixedTimeStep, Len(last'.steps),
                                      GroundMaterial).body[objects[id].body]
       /\ (last'.op = "frame" /\ sys = "service") =>
            body' = InternalStep(Cur, last'.steps[1], NullMaterial).body]_vars

\* C14 witness: a bounce without `continuous` has given an object an upward
\* velocity and the object has no animations.
ImpulseOnceWitness ==
    /\ last.op = "apply_physics"
    /\ last.arg = "bounce"
    /\ ~last.cmd.continuous
    /\ \E id \in DOMAIN objects :
          /\ objects[id].animations = <<>>
          /\ body[objects[id].body].velocity > 0

(* ---------- dragging with the pointer: SpecDrag ------------------------ *)
\* The engine only: objects are created, picked, moved inside and outside
\* the drag range, released and removed while frames run; a 'float' command
\* may arrive without a force.
DragInputs ==
    Inputs({CreateParam("sphere", None, None, FALSE, None)},
           {Physics("float", None)},
           {2},
           {"none"},
           {<<0, 0, 0>>, <<1, -1, 0>>},
           {None, Some(<<3, 2, 5>>), Some(<<300, -300, 0>>)},
           {})

InitDrag == InitOf("engine")

NextDrag ==
    \/ CreateObject(DragInputs)
    \/ ApplyPhysicsCommand(DragInputs)
    \/ Frame(DragInputs)
    \/ MouseDown(DragInputs)
    \/ MouseMove(DragInputs)
    \/ MouseUp
    \/ RemoveAll

SpecDrag == InitDrag /\ [][NextDrag]_vars

\* C2: releasing a dragged object leaves its body DYNAMIC and its
\* isDragging flag false, and the frame that follows the release integrates
\* its body (when the frame steps the world) and syncs its mesh.
ReleaseResumes ==
    [][/\ (last'.op = "mouseup" /\ last'.released \in DOMAIN objects')
          => /\ ~objects'[last'.released].isDragging
             /\ body'[objects'[last'.released].body].type = "DYNAMIC"
       /\ (last.op = "mouseup" /\ last.released \in DOMAIN objects
           /\ last'.op = "frame" /\ last'.arg = "none")
          => /\ last.released \in last'.synced
             /\ last'.steps # <<>> => last.released \in last'.dynamic]_vars

(* ---------- what each command does: SpecCommands ----------------------- *)
\* Both classes: creations that replace or add, bounces with and without a
\* restitution and with and without `continuous`, and the service's actions
\* on a registered target.
CommandInputs ==
    Inputs({CreateParam("sphere", None, None, c, None) : c \in BOOLEAN},
           {Bounce(Some(0), None, FALSE), Bounce(Some(5), Some(3), TRUE)},
           {2},
           {"none"},
           {},
           {},
           {Specification("create",
                          <<SpecObject("o1", "sphere", None, None),
                            SpecObject("o2", "sphere", None, None)>>, <<>>),
            Specification("create", <<SpecObject("o1", "sphere", None, None)>>, <<>>),
            Specification("action", <<SpecObject("o2", "sphere", None, None)>>, <<>>),
            Specification("action", <<>>,
                          <<SpecAction("set_restitution", "o1", Some(0), None, None, None)>>),
            Specification("action", <<>>,
                          <<SpecAction("set_restitution", "o1", Some(5), None, None, None)>>),
            Specification("action", <<>>,
                          <<SpecAction("set_friction", "o1", Some(5), None, None, None)>>),
            Specification("action", <<>>,
                          <<SpecAction("remove", "o1", None, None, None, None)>>),
            Specification("action", <<>>,
                          <<SpecAction("remove", "o9", None, None, None, None)>>)})

NextCommands ==
    \/ CreateObject(CommandInputs)
    \/ ApplyPhysicsCommand(CommandInputs)
    \/ Frame(CommandInputs)
    \/ Execute(CommandInputs)
    \/ ServiceFrameStep(CommandInputs)

SpecCommands == Init /\ [][NextCommands]_vars

\* Ids of the registry, and the mesh and body handles registered under an id
LiveIds == IF sys = "engine" THEN DOMAIN objects ELSE DOMAIN meshes
MeshOf(id) == IF sys = "engine" THEN objects[id].mesh ELSE meshes[id]
BodyOf(id) == IF sys = "engine" THEN objects[id].body ELSE bodies[id]

\* The ids a specification's objects name
SpecIds(spec) == {spec.objects[k].id : k \in DOMAIN spec.objects}

\* C11: a creation that signals replacement (clearExisting; intent 'create'
\* with objects) and whose object set differs from a non-empty live set
\* leaves exactly the newly created objects in the registry, the scene and
\* the world; any other creation keeps every live object with its mesh and
\* body and adds the new ones.
ReplaceOrAdd ==
    [][last'.op \in {"create_object", "executeSpecification"} =>
        LET replaces ==
                IF sys = "engine"
                THEN last'.cmd.clearExisting /\ LiveIds # {}
                ELSE /\ last'.cmd.intent = "create"
                     /\ Len(last'.cmd.objects) > 0
                     /\ LiveIds # {}
                     /\ SpecIds(last'.cmd) # LiveIds
        IN IF replaces
           THEN /\ RegisteredMeshes' = last'.created
                /\ scene' = last'.created
                /\ worldBodies' = last'.created
           ELSE /\ \A id \in LiveIds :
                      /\ id \in LiveIds'
                      /\ MeshOf(id)' = MeshOf(id) /\ MeshOf(id) \in scene'
                      /\ BodyOf(id)' = BodyOf(id) /\ BodyOf(id) \in worldBodies'
                /\ RegisteredMeshes' = RegisteredMeshes \cup last'.created]_vars

\* The one action of the specification just executed, when it was applied
\* to a registered target and is of type t
AppliedAction(t) ==
    /\ sys = "service"
    /\ last.op = "executeSpecification"
    /\ last.applied = 1
    /\ Len(last.cmd.actions) = 1
    /\ last.cmd.actions[1].type = t

\* Entries of the table keyed by the material of body b and the material of
\* the ground body
PairEntries(b) ==
    {k \in DOMAIN contactmaterials :
        {contactmaterials[k].m1, contactmaterials[k].m2}
            = {body[b].material, GroundBodyMaterial(sys)}}

\* C15: after a bounce command or a set_restitution action that gives a
\* restitution value, 0 included, the table has an entry keyed by the
\* material of each target and the ground body's material whose restitution
\* is that value.
RestitutionSet ==
    /\ (sys = "engine" /\ last.op = "apply_physics" /\ last.arg = "bounce"
        /\ last.cmd.restitution # None)
       => \A id \in DOMAIN objects :
             \E k \in PairEntries(objects[id].body) :
                 contactmaterials[k].restitution = Val(last.cmd.restitution)
    /\ (AppliedAction("set_restitution") /\ last.cmd.actions[1].value # None)
       => \E k \in PairEntries(bodies[last.cmd.actions[1].target]) :
             contactmaterials[k].restitution = Val(last.cmd.actions[1].value)

\* C16: after a set_friction action the table has exactly one entry for the
\* target's pair with the ground, and its friction is the value given.
FrictionSet ==
    AppliedAction("set_friction")
    => LET ks == PairEntries(bodies[last.cmd.actions[1].target])
       IN /\ Cardinality(ks) = 1
          /\ \A k \in ks :
                contactmaterials[k].friction = Val(last.cmd.actions[1].value)

(* ---------- animations, properties and dragging: SpecAnimate ----------- *)
\* The engine only: an object replaces the scene, is given rotation and oscillation
\* animations, recoloured and rescaled, dragged and released while frames
\* run, and the loop is stopped.
AnimateInputs ==
    Inputs({CreateParam("sphere", None, None, TRUE, None)},
           {},
           {2},
           {"none"},
           {<<0, 0, 0>>},
           {Some(<<3, 2, 5>>)},
           {})

AnimateParams == {Rotation("y", None), Oscillate(Some(2))}

ModifyParams == {Modify("scale", 20), Modify("color", "#ff0000")}

NextAnimate ==
    \/ CreateObject(AnimateInputs)
    \/ AnimateCommand(AnimateParams)
    \/ ModifyPropertyCommand(ModifyParams)
    \/ Frame(AnimateInputs)
    \/ MouseDown(AnimateInputs)
    \/ MouseMove(AnimateInputs)
    \/ MouseUp
    \/ StopEngine

SpecAnimate == InitDrag /\ [][NextAnimate]_vars

\* C12: the pose a dragged object is given by onMouseMove (or had at
\* mousedown) is kept until the drag ends: a frame that runs during the drag
\* moves neither its body nor its mesh, whatever animations it has, and
\* onMouseMove and the release leave the body where the mesh is.
DragPoseKept ==
    [][/\ (last'.op = "frame" /\ dragObject \in DOMAIN objects
           /\ objects[dragObject].isDragging)
          => /\ body'[objects[dragObject].body].position
                  = body[objects[dragObject].body].position
             /\ mesh'[objects[dragObject].mesh].position
                  = mesh[objects[dragObject].mesh].position
       /\ (last'.op = "mousemove" /\ dragObject \in DOMAIN objects)
          => body'[objects[dragObject].body].position
                  = mesh'[objects[dragObject].mesh].position
       /\ (last'.op = "mouseup" /\ last'.released \in DOMAIN objects)
          => /\ body'[objects[dragObject].body].position
                  = body[objects[dragObject].body].position
             /\ mesh'[objects[dragObject].mesh].position
                  = mesh[objects[dragObject].mesh].position]_vars

\* The rotation animation registered on an object, if any
RotationOf(id) ==
    {objects[id].animations[k].arg :
        k \in {j \in DOMAIN objects[id].animations :
                  objects[id].animations[j].kind = "rotation"}}

\* C17: in every frame, the mesh of an object with a rotation animation
\* turns about the animation's axis by its speed, on from where the frame
\* before left it, and the frame's animations leave the body as the physics
\* step left it.
RotationAccumulates ==
    [][last'.op = "frame" =>
        \A id \in DOMAIN objects : \A r \in RotationOf(id) :
            /\ mesh'[objects[id].mesh].rotation[AxisIndex(r.axis)]
                 = mesh[objects[id].mesh].rotation[AxisIndex(r.axis)]
                   + OrElse(r.speed, DefaultSpeed)
            /\ Len(objects[id].animations) = 1
               => body'[objects[id].body] =
                    InternalSteps(Cur, FixedTimeStep, Len(last'.steps),
                                  GroundMaterial).body[objects[id].body]]_vars

\* C18: a modify_property command (color, opacity or scale) changes only
\* the colour, opacity and scale of meshes and the objects' property maps:
\* every body (shape, position, orientation, velocity, material), the
\* world's and the scene's membership, the registry's keys, handles and
\* animations, the contact materials and each mesh's pose stay as they were.
ModifyIsVisualOnly ==
    [][last'.op = "modify_property" =>
        /\ UNCHANGED <<body, worldBodies, scene, contactmaterials, contactMaterials,
                       gravity, accumulator, idCounter, animationId>>
        /\ DOMAIN objects' = DOMAIN objects
        /\ \A id \in DOMAIN objects :
              /\ objects'[id].mesh = objects[id].mesh
              /\ objects'[id].body = objects[id].body
              /\ objects'[id].animations = objects[id].animations
        /\ DOMAIN mesh' = DOMAIN mesh
        /\ \A h \in DOMAIN mesh :
              /\ mesh'[h].position = mesh[h].position
              /\ mesh'[h].rotation = mesh[h].rotation]_vars

\* C18 witness: a scale command has doubled the scale of a registered
\* object's mesh, and the object's body has the shape it was created with.
ModifyIsVisualOnlyWitness ==
    /\ last.op = "modify_property"
    /\ last.arg = "scale"
    /\ \E id \in DOMAIN objects :
          /\ mesh[objects[id].mesh].scale = 20
          /\ body[objects[id].body].shape = Sphere(60)

(* ------------------- stopping and restarting the loop ------------------ *)
StopInputs ==
    Inputs({CreateParam("sphere", None, None, TRUE, None)},
           {},
           {2},
           {"none", "render"},
           {<<0, 0, 0>>},
           {Some(<<3, 2, 5>>), Some(<<-2, 4, 0>>)},
           {Specification("create", <<SpecObject("o1", "sphere", None, None)>>, <<>>)})

NextStop ==
    \/ CreateObject(StopInputs)
    \/ Frame(StopInputs)
    \/ MouseDown(StopInputs)
    \/ MouseMove(StopInputs)
    \/ MouseUp
    \/ StopEngine
    \/ Execute(StopInputs)
    \/ ServiceFrameStep(StopInputs)
    \/ StopService

SpecStop == Init /\ [][NextStop]_vars

\* The operation just performed stepped the world, synced a mesh, ran a
\* behaviour or rendered
RanFrameWork(l) ==
    l.steps # <<>> \/ l.synced # {} \/ l.ran # {} \/ l.rendered \/ l.op = "frame"

\* C19 as stated: once a loop that has objects was stopped with
\* stopAnimation(), the operation that follows performs no physics step,
\* no sync, no behaviour and no render.
NothingAfterStop ==
    [][last.op = "stopAnimation" /\ (DOMAIN objects # {} \/ DOMAIN meshes # {})
          => ~RanFrameWork(last')]_vars

\* C19: stopAnimation() clears the frame request and changes no pose, no
\* registry entry and no drag state, so an object under drag stays dragged at
\* its last dragged pose; while the request is clear no operation other than
\* the service's executeSpecification steps, syncs, runs a behaviour or
\* renders, and only executeSpecification sets the request again, starting
\* the loop anew.
StopHaltsUntilRestart ==
    [][/\ last'.op = "stopAnimation" =>
            /\ animationId' = 0
            /\ UNCHANGED <<mesh, body, objects, meshes, bodies, scene, worldBodies,
                           isDragging, dragObject, accumulator, gravity>>
       /\ animationId = 0 /\ last'.op # "executeSpecification" =>
            /\ ~RanFrameWork(last')
            /\ animationId' = 0
       /\ animationId = 0 /\ animationId' # 0 => sys = "service"]_vars

\* C19 witness: the engine's loop was stopped while an object was being
\* dragged, and the object is where the pointer last put it.
StopHaltsWitness ==
    /\ last.op = "stopAnimation"
    /\ animationId = 0
    /\ isDragging
    /\ dragObject \in DOMAIN objects
    /\ objects[dragObject].isDragging
    /\ mesh[objects[dragObject].mesh].position = <<-2, 4, 0>>
    /\ body[objects[dragObject].body].position = <<-2, 4, 0>>

\* C20: an executeSpecification whose one action is a 'remove' on a
\* registered target destroys that object (its mesh leaves the scene and its
\* body leaves the world, and both registry entries go) and leaves every
\* other object as it was; on an unregistered target it changes nothing and
\* does not throw.
RemoveDestroys ==
    [][/\ sys = "service"
       /\ last'.op = "executeSpecification"
       /\ last'.cmd.objects = <<>>
       /\ Len(last'.cmd.actions) = 1
       /\ last'.cmd.actions[1].type = "remove"
       /\ animationId # 0
       => LET t == last'.cmd.actions[1].target
          IN IF t \in DOMAIN meshes
             THEN /\ t \notin DOMAIN meshes'
                  /\ t \notin DOMAIN bodies'
                  /\ meshes[t] \notin scene'
                  /\ bodies[t] \notin worldBodies'
                  /\ \A o \in DOMAIN meshes \ {t} :
                        /\ o \in DOMAIN meshes' /\ o \in DOMAIN bodies'
                        /\ meshes'[o] \in scene' /\ bodies'[o] \in worldBodies'
                        /\ mesh'[meshes'[o]] = mesh[meshes[o]]
                        /\ body'[bodies'[o]] = body[bodies[o]]
             ELSE /\ ~last'.threw
                  /\ UNCHANGED <<scene, worldBodies, meshes, bodies, mesh, body,
                                 contactmaterials>>]_vars

(* --------------------------- mass of a sphere -------------------------- *)
MassInputs ==
    Inputs({CreateSphere(r, density, mass) :
                r \in {None, Some(6), Some(10)},
                density \in {None, Some(500), Some(1200)},
                mass \in {None, Some(2000)}},
           {},
           {2, 5},
           {"none"},
           {},
           {},
           {ParseBall(size) : size \in {None, Some(2), Some(8), Some(12), Some(20)}})

NextMass ==
    \/ CreateObject(MassInputs)
    \/ Frame(MassInputs)
    \/ Execute(MassInputs)
    \/ ServiceFrameStep(MassInputs)

SpecMass == Init /\ [][NextMass]_vars

\* C21: every sphere created from a density and a radius with no explicit
\* mass gets a body whose mass is density * (4/3) * pi * r^3 for the radius r
\* of the body's shape: in the engine for a create_object command that names
\* a density and no mass, in the service for an object of a parsed
\* specification.
MassFromDensity ==
    [][/\ sys = "engine" /\ last'.op = "create_object"
          /\ last'.cmd.type = "sphere"
          /\ last'.cmd.radius # None
          /\ last'.cmd.density # None /\ last'.cmd.mass = None
          => \A h \in last'.created :
                body'[h].mass = SphereMass(Val(last'.cmd.density),
                                           body'[h].shape.half[1])
       /\ sys = "service" /\ last'.op = "executeSpecification"
          => \A k \in DOMAIN last'.cmd.objects :
                LET o == last'.cmd.objects[k]
                IN o.type = "sphere" /\ o.density_kg_m3 # None
                   /\ o.id \in DOMAIN bodies' /\ bodies'[o.id] \in last'.created
                   => body'[bodies'[o.id]].mass =
                         SphereMass(Val(o.density_kg_m3),
                                    body'[bodies'[o.id]].shape.half[1])]_vars

(* ---------------------------- drag bookkeeping ------------------------- *)
\* C22: in every state the pointer handlers can reach, isDragging is true
\* exactly when dragObject is set, and a registered object has its
\* isDragging flag set, and a KINEMATIC body, exactly when it is the
\* dragObject: at most one object is kinematic, and none when no drag is on.
DragBookkeeping ==
    /\ isDragging <=> dragObject # 0
    /\ \A id \in DOMAIN objects :
          /\ objects[id].isDragging <=> id = dragObject
          /\ body[objects[id].body].type = "KINEMATIC" <=> id = dragObject

\* C23: whenever dragObject is set it is an object of the registry whose
\* mesh is in the scene and whose body is in the world.
DragObjectLive ==
    dragObject # 0 =>
        /\ dragObject \in DOMAIN objects
        /\ objects[dragObject].mesh \in scene
        /\ objects[dragObject].body \in worldBodies

\* C24: a frame copies the stepped physics pose of every registered object
\* that is not being dragged to its mesh, and leaves the mesh position of
\* every object that is being dragged as it was.
SyncSkipsOnlyDragged ==
    [][last'.op = "frame" =>
        LET stepped == InternalSteps(Cur, FixedTimeStep, Len(last'.steps),
                                     GroundMaterial)
        IN \A id \in DOMAIN objects :
              IF id = dragObject
              THEN /\ id \notin last'.synced
                   /\ mesh'[objects[id].mesh].position = mesh[objects[id].mesh].position
              ELSE /\ id \in last'.synced
                   /\ mesh'[objects[id].mesh].position
                        = stepped.body[objects[id].body].position]_vars

\* How often a frame ran the behaviours of object id: animate calls
\* obj.animations.forEach once.
RunsPerFrame(l, id) == IF id \in l.ran THEN 1 ELSE 0

\* C25: a frame that advances the world by k fixed steps runs every
\* registered behaviour of every object k times.
BehaviourPerTick ==
    [][sys = "engine" /\ last'.op = "frame" =>
        \A id \in DOMAIN objects :
            objects[id].animations # <<>>
            => RunsPerFrame(last', id) = Len(last'.steps)]_vars

(* ------------------------------ drag plane ----------------------------- *)
PlaneInputs ==
    Inputs({CreateParam("sphere", None, None, TRUE, pos) :
                pos \in {None, Some(<<2, 4, 3>>)}},
           {},
           {2},
           {"none"},
           {<<0, 0, 0>>, <<1, -1, 2>>},
           {None, Some(<<3, 2, 5>>), Some(<<300, -300, 0>>)},
           {})

NextPlane ==
    \/ CreateObject(PlaneInputs)
    \/ Frame(PlaneInputs)
    \/ MouseDown(PlaneInputs)
    \/ MouseMove(PlaneInputs)
    \/ MouseUp

SpecPlane == InitDrag /\ [][NextPlane]_vars

\* C26: a mousedown that starts a drag records the depth (z) the object's
\* mesh has at that moment; every mousemove during the drag leaves the
\* dragged object, mesh and body, at a position whose z is that recorded
\* depth, which is also the z it had before the move, and whose x and y lie
\* within [-MaxRange, MaxRange].
DragStaysInPlane ==
    [][/\ last'.op = "mousedown" /\ dragObject' \in DOMAIN objects
          /\ (dragObject' # dragObject \/ ~isDragging)
          => objects'[dragObject'].lockedZ
               = Some(mesh[objects[dragObject'].mesh].position[3])
       /\ last'.op = "mousemove" /\ isDragging /\ dragObject \in DOMAIN objects
          => LET o == objects[dragObject]
                 p == mesh'[o.mesh].position
             IN /\ p[3] = Val(o.lockedZ)
                /\ p[3] = mesh[o.mesh].position[3]
                /\ Abs(p[1]) <= MaxRange /\ Abs(p[2]) <= MaxRange
                /\ body'[o.body].position[3] = p[3]
                /\ Abs(body'[o.body].position[1]) <= MaxRange
                /\ Abs(body'[o.body].position[2]) <= MaxRange]_vars

\* C26 witness: an object created at depth 3 was dragged by a ray that
\* leaves the working volume, and lies clamped at the volume's corner at
\* depth 3.
DragStaysInPlaneWitness ==
    /\ last.op = "mousemove"
    /\ isDragging
    /\ dragObject \in DOMAIN objects
    /\ objects[dragObject].lockedZ = Some(3)
    /\ mesh[objects[dragObject].mesh].position = <<MaxRange, -MaxRange, 3>>
    /\ body[objects[dragObject].body].position = <<MaxRange, -MaxRange, 3>>

(* ----------------------------- keep-bouncing --------------------------- *)
\* C27: a bounce command with continuous set registers keep-bouncing with
\* the command's upward impulse and applies that impulse once; afterwards,
\* in every frame, the behaviour of an object with a DYNAMIC body adds that
\* same impulse to the stepped body exactly when the body is below the
\* ground threshold (y < BounceY) and slower than the velocity threshold
\* (|vy| < BounceSpeed), and otherwise leaves the stepped velocity alone.
KeepBouncing ==
    [][/\ sys = "engine" /\ last'.op = "apply_physics"
          /\ last'.cmd.type = "bounce" /\ last'.cmd.continuous
          => \A id \in DOMAIN objects :
                LET j == OrElse(last'.cmd.initial_velocity, DefaultImpulseY)
                    b == objects[id].body
                IN /\ \E k \in DOMAIN objects'[id].animations :
                         objects'[id].animations[k] = [kind |-> "bounce", arg |-> Some(j)]
                   /\ body[b].type = "DYNAMIC"
                      => body'[b].velocity = body[b].velocity + j
       /\ sys = "engine" /\ last'.op = "frame" /\ ~last'.threw
          => LET stepped == InternalSteps(Cur, FixedTimeStep, Len(last'.steps),
                                          GroundMaterial)
             IN \A id \in DOMAIN objects :
                   \A k \in DOMAIN objects[id].animations :
                      LET a == objects[id].animations[k]
                          sb == stepped.body[objects[id].body]
                          low == sb.position[2] < BounceY
                          slow == -BounceSpeed < sb.velocity /\ sb.velocity < BounceSpeed
                      IN a.kind = "bounce" /\ sb.type = "DYNAMIC"
                         => /\ id \in last'.bounced <=> low /\ slow
                            /\ body'[objects[id].body].velocity =
                                  IF low /\ slow THEN sb.velocity + Val(a.arg)
                                  ELSE sb.velocity]_vars

\* C27 witness: a frame found a keep-bouncing object at rest below the
\* ground threshold and gave it the command's upward impulse again.
KeepBouncingWitness ==
    /\ last.op = "frame"
    /\ last.steps # <<>>
    /\ \E id \in last.bounced :
          /\ id \in DOMAIN objects
          /\ \E k \in DOMAIN objects[id].animations :
                objects[id].animations[k] = [kind |-> "bounce", arg |-> Some(DefaultImpulseY)]
          /\ body[objects[id].body].position[2] < BounceY
          /\ body[objects[id].body].velocity = DefaultImpulseY

(* ------------------------- one action, one object ---------------------- *)
\* Object id is the same after the step as before: body, mesh pose,
\* behaviours and the entries of its pair with the ground.
Untouched(id) ==
    /\ id \in LiveIds'
    /\ BodyOf(id)' = BodyOf(id)
    /\ body'[BodyOf(id)] = body[BodyOf(id)]
    /\ mesh'[MeshOf(id)'] = mesh[MeshOf(id)]
    /\ sys = "engine" => objects'[id].animations = objects[id].animations
    /\ {contactmaterials'[k] : k \in PairEntries(BodyOf(id))'}
         = {contactmaterials[k] : k \in PairEntries(BodyOf(id))}

\* C28: an action on an object changes that object only: after an action
\* of the service on a registered target every other live object is as it
\* was, and a bounce, float or animate command of the engine leaves all
\* live objects but one as they were.
ActionTouchesTargetOnly ==
    [][/\ sys = "service" /\ last'.op = "executeSpecification"
          /\ last'.applied = 1 /\ Len(last'.cmd.actions) = 1
          /\ last'.created = {} /\ animationId # 0
          => \A id \in LiveIds \ {last'.cmd.actions[1].target} : Untouched(id)
       /\ sys = "engine" /\ LiveIds # {}
          /\ \/ last'.op = "apply_physics" /\ last'.cmd.type \in {"bounce", "float"}
             \/ last'.op = "animate"
          => \E t \in LiveIds : \A id \in LiveIds \ {t} : Untouched(id)]_vars

\* C29: a step that takes bodies out of the world (removeAllObjects,
\* clearScene, a replacing create) leaves no contact-material entry that
\* names the material of a body it removed.
DestroyDropsEntries ==
    [][\A h \in worldBodies \ worldBodies' :
          \A k \in DOMAIN contactmaterials' :
              body[h].material \notin {contactmaterials'[k].m1, contactmaterials'[k].m2}]_vars

(* --------------------------- behaviours by kind ------------------------ *)
BehaviourInputs ==
    Inputs({CreateParam("sphere", None, None, TRUE, None)},
           {Bounce(Some(10), Some(4), TRUE), Physics("float", Some(5))},
           {2},
           {"none"},
           {},
           {},
           {})

BehaviourParams == {Rotation("y", None), Oscillate(Some(2))}

NextBehaviours ==
    \/ CreateObject(BehaviourInputs)
    \/ ApplyPhysicsCommand(BehaviourInputs)
    \/ AnimateCommand(BehaviourParams)
    \/ Frame(BehaviourInputs)

SpecBehaviours == InitDrag /\ [][NextBehaviours]_vars

\* The behaviours of kind that object id holds after the step
BehavioursOf(id, kind) ==
    {objects'[id].animations[k] : k \in
        {j \in DOMAIN objects'[id].animations : objects'[id].animations[j].kind = kind}}

====
